---- MODULE Spec2Model ----
(***************************************************************************)
(* Model of the AllDebrid/aria2 download coordinator:                      *)
(*   - the torrents table (database/crud.py, database/models.py),          *)
(*   - the qBittorrent-compatible API handlers (api/routes.py),            *)
(*   - the DownloadQueue background loop (downloader/queue.py),            *)
(*   - the resolver's readiness wait (alldebrid/client.py),                *)
(*   - the aria2 adapter as seen by the loop (downloader/aria2.py).        *)
(*                                                                         *)
(* Byte counts are kept in units of 1 MiB (TLC integers are 32 bit and the *)
(* 20 GiB threshold is 20 * 1024^3 bytes): one GiB is 1024 units.          *)
(* A row's progress is kept in percent (0..100) for the float 0.0..1.0.    *)
(* NULL columns: 0 for alldebrid_id / aria2_gid (real ids start at 1),     *)
(* the string NoMsg for error_message, FALSE for completion_on.            *)
(*                                                                         *)
(* The loop is one asyncio task; the API handlers run on the same event    *)
(* loop, so they interleave with it exactly at the loop's awaits.  pc is   *)
(* the await the loop task is suspended at.  Calls that touch neither the  *)
(* table nor the engine (HTTP calls to the resolver) are merged with the   *)
(* table write that follows them: an API handler only touches the table,   *)
(* so running it between the two gives the same table as running it first. *)
(***************************************************************************)
EXTENDS Integers, Sequences, FiniteSets, TLC

VARIABLES
    db,            \* the torrents table, rows in rowid (insertion) order
    engine,        \* aria2: engine[gid] is the transfer with that gid
    magnets,       \* resolver: number of magnets uploaded, ids 1..magnets
    running,       \* DownloadQueue._running
    pc,            \* where the loop task is suspended
    torrent,       \* hash of the Torrent the start pipeline works on
    gid,           \* the gid add_download returned, not yet persisted
    downloading,   \* _update_downloading_torrents: rows still to visit
    storage_type,  \* Aria2Manager.storage_type
    magnet_uris,   \* the magnets the API clients of this run submit
    adm_in,        \* input of a stand-alone _can_start_download call
    adm_out,       \* its result
    files,         \* the names that exist under the save path
    submits,       \* the /torrents/add requests in flight, by request
    http,          \* one AllDebridClient._request call
    lifespan,      \* main.lifespan: its position and the globals it sets
    task,          \* DownloadQueue._task and the calls of start and stop
    config,        \* the aria2 options Aria2Manager.start computes
    wait           \* one wait_for_magnet_ready call on its own

vars == <<db, engine, magnets, running, pc, torrent, gid, downloading, storage_type,
          magnet_uris, adm_in, adm_out, files, submits, http, lifespan, task,
          config, wait>>

loopVars == <<running, pc, torrent, gid, downloading>>
admVars == <<magnet_uris, adm_in, adm_out, config>>
sideVars == <<submits, http, lifespan, task, wait>>

----------------------------------------------------------------------------
(* Bounds and inputs *)

\* magnets a client may submit
Hashes == {"h1", "h2"}

\* most magnets the resolver accepts in one run
MaxUploads == 2

\* most rows in the argument of a stand-alone _can_start_download call
MaxDownloading == 6

\* most /torrents/add requests in flight together
MaxSubmits == 2

\* latest time of an INSERT, in ticks of the clock
MaxClock == 2

\* units (MiB) per GiB
GiB == 1024

\* the size of the content behind each magnet, as the resolver, the
\* unlocked link and the engine report it
FileSize(h) == IF h = "h1" THEN 1 * GiB ELSE 25 * GiB

\* download speed the engine may report, units per second; a run with
\* several magnets keeps to a stalled engine
Speeds == IF Cardinality(magnet_uris) > 1 THEN {0} ELSE {0, 1}

\* str(e) of a transport failure or a rejected request
ExcMsgs == {"request failed"}

\* errorMessage the engine attaches to a transfer in error
EngineErrMsgs == {"engine error"}

\* sizes of the rows handed to a stand-alone _can_start_download call
AdmSizes == {1 * GiB, 20 * GiB, 20 * GiB + 1, 25 * GiB}

\* the deleteFiles flag of a delete request; a run with several magnets
\* keeps to deletes without it
DeleteFilesFlags == IF Cardinality(magnet_uris) > 1 THEN {FALSE} ELSE BOOLEAN

\* the name a magnet carries in its dn parameter (the release), and the
\* filename its unlocked link carries (the file of the release)
MagnetName(h) == <<"dn", h>>
FileName(h) == <<"file", h>>

NoMsg == "NULL"
NoTorrent == "none"

----------------------------------------------------------------------------
(* Settings *)

size_threshold_gb == 20
retries == 3
simultaneous_small_files == 3
ssd_cap == 5
pipeline_timeout == 300
default_poll_interval == 5

StorageTypes == {"hdd", "ssd"}
States == {"queued", "downloading", "paused", "completed", "error"}

----------------------------------------------------------------------------
(* The torrents table *)

\* Torrent(hash=..., name=..., state="queued", ...) before its INSERT;
\* added_on is 0 until the INSERT applies the column default
NewTorrent(h) ==
    [hash |-> h, name |-> MagnetName(h), state |-> "queued",
     error_message |-> NoMsg,
     alldebrid_id |-> 0, aria2_gid |-> 0,
     size |-> 0, downloaded |-> 0, progress |-> 0, dlspeed |-> 0, eta |-> 0,
     completion_on |-> FALSE, added_on |-> 0]

\* datetime.utcnow at an INSERT: later than the added_on of every row
\* stored before
utcnow(d) ==
    1 + (CHOOSE m \in {0} \cup {d[i].added_on : i \in 1..Len(d)} :
            \A i \in 1..Len(d) : d[i].added_on <= m)

HasRow(d, h) == \E i \in 1..Len(d) : d[i].hash = h

get_torrent_by_hash(d, h) == d[CHOOSE i \in 1..Len(d) : d[i].hash = h]

\* the SELECT without its WHERE
get_torrents_any_state(d, s) == d
\* no ORDER BY: SQLite answers in rowid order
get_torrents_by_state(d, s) == SelectSeq(d, LAMBDA r : r.state = s)

create_torrent(d, h) ==
    Append(d, [NewTorrent(h) EXCEPT !.added_on = utcnow(d)])

\* setattr for each given column of the row, then commit; None (no change)
\* when there is no such row
update_torrent(d, h, kwargs) ==
    IF ~HasRow(d, h) THEN d
    ELSE [i \in 1..Len(d) |->
            IF d[i].hash = h THEN kwargs @@ d[i] ELSE d[i]]

delete_torrent(d, h) == SelectSeq(d, LAMBDA r : r.hash # h)

mark_torrent_error(d, h, msg) ==
    update_torrent(d, h, [state |-> "error", error_message |-> msg,
                          dlspeed |-> 0])

----------------------------------------------------------------------------
(* Admission policy *)

\* variants of the policy with one rule changed
can_start_download_count_only(dl, storage) ==
    IF dl = <<>> THEN TRUE
    ELSE IF storage = "hdd" THEN Len(dl) < simultaneous_small_files
         ELSE Len(dl) < ssd_cap

can_start_download_inclusive(dl, storage) ==
    IF dl = <<>> THEN TRUE
    ELSE IF storage = "hdd"
         THEN LET large_files ==
                    SelectSeq(dl, LAMBDA t : t.size > size_threshold_gb * GiB)
              IN  IF large_files # <<>> THEN FALSE
                  ELSE Len(dl) <= simultaneous_small_files
         ELSE Len(dl) < ssd_cap

can_start_download_any_storage(dl, storage) ==
    IF dl = <<>> THEN TRUE
    ELSE LET large_files ==
                SelectSeq(dl, LAMBDA t : t.size > size_threshold_gb * GiB)
         IN  IF large_files # <<>> THEN FALSE
             ELSE Len(dl) < ssd_cap

can_start_download(dl, storage) ==
    IF dl = <<>> THEN TRUE
    ELSE IF storage = "hdd"
         THEN LET large_files ==
                    SelectSeq(dl, LAMBDA t : t.size > size_threshold_gb * GiB)
              IN  IF large_files # <<>> THEN FALSE
                  ELSE Len(dl) < simultaneous_small_files
         ELSE Len(dl) < ssd_cap

----------------------------------------------------------------------------
(* API handlers, one hash per request *)

add_torrent(h) ==
    /\ running
    /\ h \in magnet_uris
    /\ ~HasRow(db, h) => utcnow(db) <= MaxClock
    /\ db' = IF HasRow(db, h) THEN db ELSE create_torrent(db, h)
    /\ UNCHANGED <<engine, magnets, loopVars, storage_type, admVars,
                   files, sideVars>>

\* the path save_path / name is removed when deleteFiles is set and it
\* exists; the engine is not called
delete_torrents(h, deleteFiles) ==
    /\ running
    /\ HasRow(db, h)
    /\ files' = IF deleteFiles /\ get_torrent_by_hash(db, h).name \in files
                THEN files \ {get_torrent_by_hash(db, h).name}
                ELSE files
    /\ db' = delete_torrent(db, h)
    /\ UNCHANGED <<engine, magnets, loopVars, storage_type, admVars,
                   sideVars>>

pause_torrents(h) ==
    /\ running
    /\ db' = update_torrent(db, h, [state |-> "paused"])
    /\ UNCHANGED <<engine, magnets, loopVars, storage_type, admVars,
                   files, sideVars>>

\* variant: resume queues the record whatever its state
resume_torrents_any(h) ==
    /\ running
    /\ HasRow(db, h)
    /\ db' = update_torrent(db, h, [state |-> "queued"])
    /\ UNCHANGED <<engine, magnets, loopVars, storage_type, admVars,
                   files, sideVars>>

resume_torrents(h) ==
    /\ running
    /\ HasRow(db, h)
    /\ db' = IF get_torrent_by_hash(db, h).state = "paused"
             THEN update_torrent(db, h, [state |-> "queued"])
             ELSE db
    /\ UNCHANGED <<engine, magnets, loopVars, storage_type, admVars,
                   files, sideVars>>

----------------------------------------------------------------------------
(* DownloadQueue.start *)

start ==
    /\ pc = "init"
    /\ ~running
    /\ running' = TRUE
    /\ pc' = "queued"
    /\ UNCHANGED <<db, engine, magnets, torrent, gid, downloading,
                   storage_type, admVars,
                   files, sideVars>>

(* DownloadQueue.stop: the flag is cleared and the task cancelled at the
   await it is suspended at; the task's locals are gone with it.  The
   application is shutting down: no API request is served after it. *)
stop ==
    /\ running
    /\ running' = FALSE
    /\ pc' = "stopped"
    /\ torrent' = NoTorrent
    /\ gid' = 0
    /\ downloading' = <<>>
    /\ UNCHANGED <<db, engine, magnets, storage_type, admVars, files, sideVars>>

----------------------------------------------------------------------------
(* Resolver client: wait_for_magnet_ready *)

\* statusCode values of the resolver's magnet/status answer
StatusCodes == 0..11
READY == 4
\* the list with its last code dropped
ErrorCodes_short == {5, 6, 7, 8}
ErrorCodes == {5, 6, 7, 8, 11}

MagnetFailedMsg(c) ==
    CASE c = 5 -> "Magnet failed with status code 5"
      [] c = 6 -> "Magnet failed with status code 6"
      [] c = 7 -> "Magnet failed with status code 7"
      [] c = 8 -> "Magnet failed with status code 8"
      [] OTHER -> "Magnet failed with status code 11"

\* what one get_magnet_status call gives: a status, or an exception
StatusAnswer(c, l) ==
    [kind |-> "status", statusCode |-> c, has_links |-> l, msg |-> ""]
ExceptionAnswer(m) ==
    [kind |-> "exception", statusCode |-> 0, has_links |-> FALSE, msg |-> m]
\* (the links of an answer are read only when it is READY)
Answers ==
    {StatusAnswer(c, FALSE) : c \in StatusCodes \ {READY}}
        \cup {StatusAnswer(READY, l) : l \in BOOLEAN}
        \cup {ExceptionAnswer(m) : m \in ExcMsgs}

\* A resolver behaviour: the first `pending` polls answer "downloading"
\* (statusCode 1), every later poll answers `final`.
PendingCounts ==
    {0, pipeline_timeout \div default_poll_interval - 1,
        pipeline_timeout \div default_poll_interval}
Scripts == [pending : PendingCounts, final : Answers]

get_magnet_status(script, n) ==
    IF n <= script.pending THEN StatusAnswer(1, FALSE) ELSE script.final

WaitResult(o, a, n) ==
    [outcome |-> o, has_links |-> a.has_links, msg |-> a.msg, polls |-> n]

\* the while loop admitting an iteration when elapsed has reached the timeout
poll_rounds_late(tmo, interval) == {k \in 0..tmo : k * interval <= tmo}

\* the iterations of the while loop: iteration k (from 0) starts with
\* elapsed = k * interval and runs when elapsed < timeout
poll_rounds(tmo, interval) == {k \in 0..tmo : k * interval < tmo}

\* a loop that goes on polling after an error code
ends_wait_ready_only(status) ==
    \/ status.kind = "exception"
    \/ status.statusCode = READY

\* the status makes the loop return or raise
ends_wait(status) ==
    \/ status.kind = "exception"
    \/ status.statusCode = READY
    \/ status.statusCode \in ErrorCodes

\* how the iteration making poll n leaves the loop on such a status
poll_result(status, n) ==
    IF status.kind = "exception"
    THEN WaitResult("Exception", status, n)
    ELSE IF status.statusCode = READY
    THEN WaitResult("return", status, n)
    ELSE WaitResult("ValueError",
                    ExceptionAnswer(MagnetFailedMsg(status.statusCode)), n)

\* the loop ends in its first iteration whose status ends the wait; with no
\* such iteration it runs them all and raises TimeoutError
wait_for_magnet_ready(script, tmo, interval) ==
    LET rounds == poll_rounds(tmo, interval)
        stopping == {k \in rounds : ends_wait(get_magnet_status(script, k + 1))}
    IN  IF stopping = {}
        THEN WaitResult("TimeoutError", ExceptionAnswer("not ready"),
                        Cardinality(rounds))
        ELSE LET k == CHOOSE i \in stopping : \A j \in stopping : i <= j
             IN  poll_result(get_magnet_status(script, k + 1), k + 1)

\* the arguments of a wait_for_magnet_ready call on its own: timeouts and
\* positive poll intervals that divide them or not, and resolvers that
\* answer "downloading" to the first polls
WaitTimeouts == {0, 1, 10, 12, pipeline_timeout}
WaitIntervals == {1, default_poll_interval, 7}
WaitScripts == [pending : 0..3 \cup PendingCounts, final : Answers]

NewWait(sc, tmo, interval) ==
    [script |-> sc, timeout |-> tmo, poll_interval |-> interval,
     result |-> <<>>]

\* the call runs to its end
wait_call ==
    /\ wait # <<>>
    /\ wait.result = <<>>
    /\ wait' = [wait EXCEPT !.result =
                   <<wait_for_magnet_ready(wait.script, wait.timeout,
                                           wait.poll_interval)>>]
    /\ UNCHANGED <<db, engine, magnets, loopVars, storage_type, admVars, files,
                   submits, http, lifespan, task>>

----------------------------------------------------------------------------
(* DownloadQueue._process_queued_torrents *)

\* an admission pass that does not ask _can_start_download
process_queued_torrents_unchecked ==
    /\ pc = "queued"
    /\ LET queued == get_torrents_by_state(db, "queued")
       IN  IF queued = <<>>
           THEN /\ pc' = "downloading"
                /\ torrent' = NoTorrent
           ELSE /\ pc' = "upload"
                /\ torrent' = queued[1].hash
    /\ UNCHANGED <<db, engine, magnets, running, gid, downloading,
                   storage_type, admVars,
                   files, sideVars>>

\* an admission pass that takes the last of the queued rows
process_queued_torrents_newest ==
    /\ pc = "queued"
    /\ LET queued == get_torrents_by_state(db, "queued")
           dl == get_torrents_by_state(db, "downloading")
       IN  IF queued = <<>> \/ ~can_start_download(dl, storage_type)
           THEN /\ pc' = "downloading"
                /\ torrent' = NoTorrent
           ELSE /\ pc' = "upload"
                /\ torrent' = queued[Len(queued)].hash
    /\ UNCHANGED <<db, engine, magnets, running, gid, downloading,
                   storage_type, admVars,
                   files, sideVars>>

process_queued_torrents ==
    /\ pc = "queued"
    /\ LET queued == get_torrents_by_state(db, "queued")
           dl == get_torrents_by_state(db, "downloading")
       IN  IF queued = <<>> \/ ~can_start_download(dl, storage_type)
           THEN /\ pc' = "downloading"
                /\ torrent' = NoTorrent
           ELSE /\ pc' = "upload"
                /\ torrent' = queued[1].hash
    /\ UNCHANGED <<db, engine, magnets, running, gid, downloading,
                   storage_type, admVars,
                   files, sideVars>>

(* DownloadQueue._start_torrent_download *)

\* except Exception: mark_torrent_error(str(e)); the pass is over
\* variant: the except branch that logs the failure and leaves the record
pipeline_failed_logs_only(msg) ==
    /\ pc' = "downloading"
    /\ torrent' = NoTorrent
    /\ UNCHANGED <<db, engine, magnets, running, gid, downloading,
                   storage_type, admVars,
                   files, sideVars>>

pipeline_failed(msg) ==
    /\ db' = mark_torrent_error(db, torrent, msg)
    /\ pc' = "downloading"
    /\ torrent' = NoTorrent
    /\ UNCHANGED <<engine, magnets, running, gid, downloading, storage_type,
                   admVars,
                   files, sideVars>>

\* an upload that marks the row downloading at once
upload_ok_marks_downloading ==
    /\ pc = "upload"
    /\ magnets < MaxUploads
    /\ magnets' = magnets + 1
    /\ db' = update_torrent(db, torrent,
                 [alldebrid_id |-> magnets + 1, size |-> FileSize(torrent),
                  state |-> "downloading"])
    /\ pc' = "wait"
    /\ UNCHANGED <<engine, running, torrent, gid, downloading, storage_type,
                   admVars,
                   files, sideVars>>

\* upload_magnet, then update_torrent(alldebrid_id, size)
upload_ok ==
    /\ pc = "upload"
    /\ magnets < MaxUploads
    /\ magnets' = magnets + 1
    /\ db' = update_torrent(db, torrent,
                 [alldebrid_id |-> magnets + 1, size |-> FileSize(torrent)])
    /\ pc' = "wait"
    /\ UNCHANGED <<engine, running, torrent, gid, downloading, storage_type,
                   admVars,
                   files, sideVars>>

upload_raises ==
    /\ pc = "upload"
    /\ \E m \in ExcMsgs : pipeline_failed(m)

\* a pipeline that goes on to unlock whatever the links are
after_wait_any_links(r) ==
    /\ pc = "wait"
    /\ IF r.outcome = "TimeoutError"
       THEN /\ db' = mark_torrent_error(db, torrent,
                                        "AllDebrid processing timeout")
            /\ pc' = "downloading"
            /\ torrent' = NoTorrent
       ELSE IF r.outcome = "return"
       THEN /\ pc' = "unlock"
            /\ UNCHANGED <<db, torrent>>
       ELSE /\ db' = mark_torrent_error(db, torrent, r.msg)
            /\ pc' = "downloading"
            /\ torrent' = NoTorrent
    /\ UNCHANGED <<engine, magnets, running, gid, downloading, storage_type,
                   admVars,
                   files, sideVars>>

\* wait_for_magnet_ready having ended with r, and what the pipeline does
\* with it up to its next await
after_wait(r) ==
    /\ pc = "wait"
    /\ IF r.outcome = "TimeoutError"
       THEN /\ db' = mark_torrent_error(db, torrent,
                                        "AllDebrid processing timeout")
            /\ pc' = "downloading"
            /\ torrent' = NoTorrent
       ELSE IF r.outcome = "return"
       THEN IF ~r.has_links
            THEN /\ db' = mark_torrent_error(db, torrent,
                                             "No download links available")
                 /\ pc' = "downloading"
                 /\ torrent' = NoTorrent
            ELSE /\ pc' = "unlock"
                 /\ UNCHANGED <<db, torrent>>
       ELSE /\ db' = mark_torrent_error(db, torrent, r.msg)
            /\ pc' = "downloading"
            /\ torrent' = NoTorrent
    /\ UNCHANGED <<engine, magnets, running, gid, downloading, storage_type,
                   admVars,
                   files, sideVars>>

\* what the pipeline sees of the wait, over the resolver's behaviours
WaitResults ==
    {LET r == wait_for_magnet_ready(script, pipeline_timeout,
                                    default_poll_interval)
     IN  [outcome |-> r.outcome, has_links |-> r.has_links, msg |-> r.msg] :
        script \in Scripts}

\* a run with several magnets keeps to one of the error codes
RunErrorCodes == IF Cardinality(magnet_uris) > 1 THEN {11} ELSE ErrorCodes

wait_step ==
    /\ pc = "wait"
    /\ \E r \in WaitResults :
          /\ r.outcome = "ValueError" =>
                r.msg \in {MagnetFailedMsg(c) : c \in RunErrorCodes}
          /\ after_wait(r)

\* unlock_link, then aria2.add_download(out=filename) (no await in
\* between); the engine starts the transfer and allocates its file
unlock_and_add ==
    /\ pc = "unlock"
    /\ engine' = Append(engine, [owner |-> torrent])
    /\ files' = files \cup {FileName(torrent)}
    /\ gid' = Len(engine) + 1
    /\ pc' = "persist"
    /\ UNCHANGED <<db, magnets, running, torrent, downloading, storage_type,
                   admVars, sideVars>>

unlock_or_add_raises ==
    /\ pc = "unlock"
    /\ \E m \in ExcMsgs : pipeline_failed(m)

\* a final update that writes the state and leaves the gid for later
persist_download_state_only ==
    /\ pc = "persist"
    /\ db' = update_torrent(db, torrent,
                 [state |-> "downloading",
                  name |-> FileName(torrent), size |-> FileSize(torrent)])
    /\ pc' = "downloading"
    /\ torrent' = NoTorrent
    /\ gid' = 0
    /\ UNCHANGED <<engine, magnets, running, downloading, storage_type,
                   admVars,
                   files, sideVars>>

\* a pipeline after which the admission pass goes on to the next queued row
persist_download_next ==
    /\ pc = "persist"
    /\ db' = update_torrent(db, torrent,
                 [state |-> "downloading", aria2_gid |-> gid,
                  name |-> FileName(torrent), size |-> FileSize(torrent)])
    /\ pc' = "queued"
    /\ torrent' = NoTorrent
    /\ gid' = 0
    /\ UNCHANGED <<engine, magnets, running, downloading, storage_type,
                   admVars,
                   files, sideVars>>

\* update_torrent(state="downloading", aria2_gid=gid, ..., size=filesize)
persist_download ==
    /\ pc = "persist"
    /\ db' = update_torrent(db, torrent,
                 [state |-> "downloading", aria2_gid |-> gid,
                  name |-> FileName(torrent), size |-> FileSize(torrent)])
    /\ pc' = "downloading"
    /\ torrent' = NoTorrent
    /\ gid' = 0
    /\ UNCHANGED <<engine, magnets, running, downloading, storage_type,
                   admVars,
                   files, sideVars>>

----------------------------------------------------------------------------
(* DownloadQueue._update_downloading_torrents *)

\* what get_download_status can return for a transfer of magnet h
Reports(h) ==
    [status : {"active", "complete", "error"},
     total_length : {FileSize(h)},
     completed_length : {0, FileSize(h)},
     download_speed : Speeds,
     error_message : EngineErrMsgs]

\* aria2p's Download.progress, in percent
engine_progress(st) ==
    IF st.total_length = 0 THEN 0
    ELSE (st.completed_length * 100) \div st.total_length

\* the SELECT of the rows in state downloading
read_downloading ==
    /\ pc = "downloading"
    /\ downloading' = [i \in 1..Len(get_torrents_by_state(db, "downloading")) |->
                         LET t == get_torrents_by_state(db, "downloading")[i]
                         IN  [hash |-> t.hash, aria2_gid |-> t.aria2_gid]]
    /\ pc' = "update"
    /\ UNCHANGED <<db, engine, magnets, running, torrent, gid, storage_type,
                   admVars,
                   files, sideVars>>

\* the update without the values forced on completion
update_data_unforced(st) ==
    LET dlspeed == st.download_speed
        downloaded == st.completed_length
        total == st.total_length
        eta == IF dlspeed > 0 THEN (total - downloaded) \div dlspeed ELSE 0
        base == [progress |-> engine_progress(st), dlspeed |-> dlspeed,
                 downloaded |-> downloaded, size |-> total, eta |-> eta]
    IN  IF st.status = "complete"
        THEN [state |-> "completed", completion_on |-> TRUE] @@ base
        ELSE base

update_data(st) ==
    LET dlspeed == st.download_speed
        downloaded == st.completed_length
        total == st.total_length
        eta == IF dlspeed > 0 THEN (total - downloaded) \div dlspeed ELSE 0
        base == [progress |-> engine_progress(st), dlspeed |-> dlspeed,
                 downloaded |-> downloaded, size |-> total, eta |-> eta]
    IN  IF st.status = "complete"
        THEN [state |-> "completed", completion_on |-> TRUE,
              progress |-> 100, dlspeed |-> 0, eta |-> 0] @@ base
        ELSE base

\* a body that writes the progress columns of a failed transfer as well
reconcile_error_with_update(t, st) ==
    IF st.status = "error"
    THEN mark_torrent_error(update_torrent(db, t.hash, update_data(st)),
                            t.hash, st.error_message)
    ELSE update_torrent(db, t.hash, update_data(st))

\* the body of the for loop for one row, the engine answering st
reconcile(t, st) ==
    IF st.status = "error"
    THEN mark_torrent_error(db, t.hash, st.error_message)
    ELSE update_torrent(db, t.hash, update_data(st))

\* a skip that marks the row it could not query as failed
update_skip_marks_error ==
    /\ pc = "update"
    /\ downloading # <<>>
    /\ db' = mark_torrent_error(db, Head(downloading).hash, "Unknown error")
    /\ downloading' = Tail(downloading)
    /\ UNCHANGED <<engine, magnets, running, pc, torrent, gid,
                   storage_type, admVars,
                   files, sideVars>>

\* the row has no gid, or get_download_status returned None
update_skip ==
    /\ pc = "update"
    /\ downloading # <<>>
    /\ downloading' = Tail(downloading)
    /\ UNCHANGED <<db, engine, magnets, running, pc, torrent, gid,
                   storage_type, admVars,
                   files, sideVars>>

update_one(st) ==
    /\ pc = "update"
    /\ downloading # <<>>
    /\ Head(downloading).aria2_gid # 0
    /\ Head(downloading).aria2_gid \in 1..Len(engine)
    /\ st \in Reports(engine[Head(downloading).aria2_gid].owner)
    /\ db' = reconcile(Head(downloading), st)
    /\ downloading' = Tail(downloading)
    /\ UNCHANGED <<engine, magnets, running, pc, torrent, gid, storage_type,
                   admVars,
                   files, sideVars>>

\* the pass is over; asyncio.sleep(5), then the next iteration
update_done ==
    /\ pc = "update"
    /\ downloading = <<>>
    /\ pc' = "queued"
    /\ UNCHANGED <<db, engine, magnets, running, torrent, gid, downloading,
                   storage_type, admVars,
                   files, sideVars>>

AllReports == UNION {Reports(h) : h \in Hashes}

(* DownloadQueue._process_queue: an exception leaves the pass *)

\* the awaits of a pass outside the per-row try of the update pass
PassAwaits == {"queued", "upload", "wait", "unlock", "persist", "downloading"}

\* an exception ending the loop instead of being caught
pass_raises_abort ==
    /\ pc \in PassAwaits
    /\ pc' = "stopped"
    /\ torrent' = NoTorrent
    /\ gid' = 0
    /\ downloading' = <<>>
    /\ UNCHANGED <<db, engine, magnets, running, storage_type, admVars, files,
                   sideVars>>

\* the table is unavailable: a SELECT of the pass raises, or the pipeline's
\* write and then its mark_torrent_error raise; except Exception in
\* _process_queue catches it, logs, and sleeps 10 s
pass_raises ==
    /\ pc \in PassAwaits
    /\ pc' = "backoff"
    /\ torrent' = NoTorrent
    /\ gid' = 0
    /\ downloading' = <<>>
    /\ UNCHANGED <<db, engine, magnets, running, storage_type, admVars, files,
                   sideVars>>

\* asyncio.sleep(10) is over: while self._running, the next iteration
backoff_done ==
    /\ pc = "backoff"
    /\ pc' = "queued"
    /\ UNCHANGED <<db, engine, magnets, running, torrent, gid, downloading,
                   storage_type, admVars, files, sideVars>>

----------------------------------------------------------------------------
\* a stand-alone call of _can_start_download on the rows adm_in
can_start_call ==
    /\ adm_out = <<>>
    /\ submits = <<>>
    /\ http = <<>>
    /\ adm_out' = <<can_start_download(adm_in, storage_type)>>
    /\ UNCHANGED <<db, engine, magnets, loopVars, storage_type, magnet_uris,
                   adm_in, config, files, sideVars>>

AdmInputs ==
    UNION {[1..n -> [size : AdmSizes]] : n \in 0..MaxDownloading}

----------------------------------------------------------------------------
(* AllDebridClient._request: the retry loop, await by await.  http.script
   is what the service does on each attempt:
     "ok"         a response whose JSON carries no error,
     "api_error"  a response whose JSON has status "error": the code raises
                  httpx.HTTPError(error_msg) inside the try,
     "transport"  the HTTP call or raise_for_status raises an httpx.HTTPError,
     "other"      an exception that is no httpx.HTTPError (a body that is
                  no JSON). *)

AttemptOutcomes == {"ok", "api_error", "transport", "other"}

NoResult == [kind |-> "none", attempt |-> 0, error |-> "none"]

NewRequest(sc) ==
    [script |-> sc, attempt |-> 0, at |-> "attempt", attempts |-> 0,
     slept |-> <<>>, result |-> NoResult]

\* what `except httpx.HTTPError` catches
caught(o) == o \in {"api_error", "transport"}

\* a delay that does not grow
backoff_flat(attempt) == 1
\* await asyncio.sleep(2 ** attempt)
backoff(attempt) == 2 ^ attempt

\* one iteration of `for attempt in range(retries)` up to its return,
\* raise or sleep
request_attempt ==
    /\ http # <<>>
    /\ http.at = "attempt"
    /\ LET o == http.script[http.attempt + 1]
           n == http.attempt + 1
       IN  http' =
             IF o = "ok"
             THEN [http EXCEPT !.attempts = n, !.at = "done",
                      !.result = [kind |-> "return", attempt |-> n,
                                  error |-> "none"]]
             ELSE IF ~caught(o) \/ http.attempt = retries - 1
             THEN [http EXCEPT !.attempts = n, !.at = "done",
                      !.result = [kind |-> "raise", attempt |-> n,
                                  error |-> o]]
             ELSE [http EXCEPT !.attempts = n, !.at = "sleep"]
    /\ UNCHANGED <<db, engine, magnets, loopVars, storage_type, admVars,
                   files, submits, lifespan, task, wait>>

\* the backoff sleep is over: the next iteration
request_sleep ==
    /\ http # <<>>
    /\ http.at = "sleep"
    /\ http' = [http EXCEPT !.slept = Append(@, backoff(http.attempt)),
                            !.attempt = @ + 1, !.at = "attempt"]
    /\ UNCHANGED <<db, engine, magnets, loopVars, storage_type, admVars,
                   files, submits, lifespan, task, wait>>

----------------------------------------------------------------------------
(* POST /torrents/add, await by await: the handler reads the row by hash,
   and creates it when there was none.  Two requests run as two tasks with
   a session each; add_torrent above is one request run alone. *)

Reqs == 1..MaxSubmits

NewSubmit(h) == [hash |-> h, at |-> "get", response |-> "none"]

\* existing = await crud.get_torrent_by_hash(...); if existing: continue,
\* and the handler returns "Ok."
\* variant: a submission of an existing hash queues the record afresh
submit_get_requeue(r) ==
    /\ r \in DOMAIN submits
    /\ submits[r].at = "get"
    /\ IF HasRow(db, submits[r].hash)
       THEN /\ submits' = [submits EXCEPT ![r].at = "done",
                                          ![r].response = "Ok."]
            /\ db' = update_torrent(db, submits[r].hash,
                                    NewTorrent(submits[r].hash))
       ELSE /\ submits' = [submits EXCEPT ![r].at = "create"]
            /\ db' = db
    /\ UNCHANGED <<engine, magnets, loopVars, storage_type, admVars, files,
                   http, lifespan, task, wait>>

submit_get(r) ==
    /\ r \in DOMAIN submits
    /\ submits[r].at = "get"
    /\ submits' = IF HasRow(db, submits[r].hash)
                  THEN [submits EXCEPT ![r].at = "done", ![r].response = "Ok."]
                  ELSE [submits EXCEPT ![r].at = "create"]
    /\ UNCHANGED <<db, engine, magnets, loopVars, storage_type, admVars,
                   files, http, lifespan, task, wait>>

\* await crud.create_torrent(...): the commit raises IntegrityError when
\* the hash (unique) is stored by now; create_torrent rolls back and
\* re-raises, and the handler answers HTTP 400
submit_create(r) ==
    /\ r \in DOMAIN submits
    /\ submits[r].at = "create"
    /\ IF HasRow(db, submits[r].hash)
       THEN /\ db' = db
            /\ submits' = [submits EXCEPT ![r].at = "done",
                                          ![r].response = "400"]
       ELSE /\ db' = create_torrent(db, submits[r].hash)
            /\ submits' = [submits EXCEPT ![r].at = "done",
                                          ![r].response = "Ok."]
    /\ UNCHANGED <<engine, magnets, loopVars, storage_type, admVars, files,
                   http, lifespan, task, wait>>

\* what the table, the engine and the disk hold when the requests arrive:
\* nothing, or one magnet queued, downloading or completed
QueuedStore(h) ==
    [db |-> create_torrent(<<>>, h), engine |-> <<>>, files |-> {}, magnets |-> 0]
DownloadingStore(h) ==
    [db |-> update_torrent(
               update_torrent(create_torrent(<<>>, h), h,
                   [state |-> "downloading", alldebrid_id |-> 1,
                    aria2_gid |-> 1, name |-> FileName(h),
                    size |-> FileSize(h)]),
               h,
               update_data([status |-> "active", total_length |-> FileSize(h),
                            completed_length |-> FileSize(h),
                            download_speed |-> 1,
                            error_message |-> "engine error"])),
     engine |-> <<[owner |-> h]>>, files |-> {FileName(h)}, magnets |-> 1]
CompletedStore(h) ==
    [DownloadingStore(h) EXCEPT
        !.db = update_torrent(DownloadingStore(h).db, h,
                   update_data([status |-> "complete",
                                total_length |-> FileSize(h),
                                completed_length |-> FileSize(h),
                                download_speed |-> 0,
                                error_message |-> "engine error"]))]
Stores ==
    {[db |-> <<>>, engine |-> <<>>, files |-> {}, magnets |-> 0]}
        \cup UNION {{QueuedStore(h), DownloadingStore(h), CompletedStore(h)} :
                       h \in Hashes}

----------------------------------------------------------------------------
(* utils.storage.get_optimal_aria2_config and the options Aria2Manager.start
   builds from it *)

\* a profile that knows the class ssd only by its name
get_optimal_aria2_config_named(st) ==
    IF st = "ssd"
    THEN  "max-connection-per-server" :> 32 @@ "split" :> 16
       @@ "min-split-size" :> "20M" @@ "file-allocation" :> "falloc"
       @@ "disk-cache" :> "64M" @@ "max-concurrent-downloads" :> 5
       @@ "enable-mmap" :> FALSE @@ "max-overall-download-limit" :> "0"
       @@ "continue" :> TRUE @@ "auto-file-renaming" :> FALSE
       @@ "allow-overwrite" :> FALSE
    ELSE  "max-connection-per-server" :> 16 @@ "split" :> 1
       @@ "min-split-size" :> "1G" @@ "file-allocation" :> "prealloc"
       @@ "disk-cache" :> "128M" @@ "max-concurrent-downloads" :> 2
       @@ "enable-mmap" :> TRUE @@ "max-overall-download-limit" :> "0"
       @@ "continue" :> TRUE @@ "auto-file-renaming" :> FALSE
       @@ "allow-overwrite" :> FALSE

get_optimal_aria2_config(st) ==
    IF st = "hdd"
    THEN  "max-connection-per-server" :> 16 @@ "split" :> 1
       @@ "min-split-size" :> "1G" @@ "file-allocation" :> "prealloc"
       @@ "disk-cache" :> "128M" @@ "max-concurrent-downloads" :> 2
       @@ "enable-mmap" :> TRUE @@ "max-overall-download-limit" :> "0"
       @@ "continue" :> TRUE @@ "auto-file-renaming" :> FALSE
       @@ "allow-overwrite" :> FALSE
    ELSE  "max-connection-per-server" :> 32 @@ "split" :> 16
       @@ "min-split-size" :> "20M" @@ "file-allocation" :> "falloc"
       @@ "disk-cache" :> "64M" @@ "max-concurrent-downloads" :> 5
       @@ "enable-mmap" :> FALSE @@ "max-overall-download-limit" :> "0"
       @@ "continue" :> TRUE @@ "auto-file-renaming" :> FALSE
       @@ "allow-overwrite" :> FALSE

\* the classes the profile is asked for: the two of detect_storage_type and
\* names that are neither
StorageInputs == StorageTypes \cup {"nvme", "HDD"}

\* the settings Aria2Manager.start overrides the profile with; 0 and the
\* empty string are the values Python takes as false
SettingsInputs ==
    [aria2_connections : {0, 8, 16},
     aria2_split : {0, 1},
     aria2_disk_cache : {"", "128M"},
     max_concurrent_downloads : {0, 2}]

\* the settings of an installation that sets none of them (config.py 21-25)
DefaultSettings ==
    [aria2_connections |-> 16, aria2_split |-> 1, aria2_disk_cache |-> "128M",
     max_concurrent_downloads |-> 2]

NewConfig(s) == [settings |-> s, done |-> FALSE, profile |-> <<>>,
                 options |-> <<>>]

\* `if settings.x: config[key] = settings.x`
override(key, value, unset) == IF value # unset THEN key :> value ELSE <<>>

\* Aria2Manager.start up to the aria2c command line
aria2_configure ==
    /\ config # <<>>
    /\ ~config.done
    /\ LET profile == get_optimal_aria2_config(storage_type)
           s == config.settings
       IN  config' =
             [config EXCEPT
                !.done = TRUE,
                !.profile = profile,
                !.options =
                      override("max-connection-per-server",
                               s.aria2_connections, 0)
                   @@ override("split", s.aria2_split, 0)
                   @@ override("disk-cache", s.aria2_disk_cache, "")
                   @@ override("max-concurrent-downloads",
                               s.max_concurrent_downloads, 0)
                   @@ profile]
    /\ UNCHANGED <<db, engine, magnets, loopVars, storage_type, magnet_uris,
                   adm_in, adm_out, files, sideVars>>

----------------------------------------------------------------------------
(* DownloadQueue.start and DownloadQueue.stop, call by call.  task.tasks
   counts the loop tasks that were created and have not ended; task.ref
   says that self._task is set; task.cancelled says that cancel() was
   called on the task and the CancelledError is not yet delivered;
   task.call is "stop" while a caller is suspended in stop(), at
   `await self._task`. *)

NewTask == [tasks |-> 0, ref |-> FALSE, cancelled |-> FALSE, call |-> "idle"]

\* the loop task has not ended
TaskAlive == pc \notin {"init", "stopped"}

\* start(): `if self._running: return`, else the flag and create_task
queue_start ==
    /\ task.call = "idle"
    /\ IF running
       THEN UNCHANGED <<running, pc, task>>
       ELSE /\ running' = TRUE
            /\ pc' = "queued"
            /\ task' = [task EXCEPT !.tasks = @ + 1, !.ref = TRUE]
    /\ UNCHANGED <<db, engine, magnets, torrent, gid, downloading,
                   storage_type, admVars, files, submits, http, wait>>

\* a stop() that clears the flag and leaves the task alone
queue_stop_flag_only ==
    /\ task.call = "idle"
    /\ running' = FALSE
    /\ task' = [task EXCEPT !.call = "idle"]
    /\ UNCHANGED <<db, engine, magnets, pc, torrent, gid, downloading,
                   storage_type, admVars, files, submits, http, wait>>

\* stop() up to its await: the flag is cleared and, if there is a task,
\* cancel() is called on it
queue_stop ==
    /\ task.call = "idle"
    /\ running' = FALSE
    /\ task' = [task EXCEPT !.call = "stop",
                            !.cancelled = task.ref /\ TaskAlive]
    /\ UNCHANGED <<db, engine, magnets, pc, torrent, gid, downloading,
                   storage_type, admVars, files, submits, http, wait>>

\* the CancelledError reaches the task at the await it is suspended at:
\* no `except Exception` catches it, `except asyncio.CancelledError: break`
\* (or the sleep of the exception handler) ends the task
loop_cancelled ==
    /\ task.cancelled
    /\ TaskAlive
    /\ pc' = "stopped"
    /\ torrent' = NoTorrent
    /\ gid' = 0
    /\ downloading' = <<>>
    /\ task' = [task EXCEPT !.tasks = @ - 1, !.cancelled = FALSE]
    /\ UNCHANGED <<db, engine, magnets, running, storage_type, admVars, files,
                   submits, http, wait>>

\* `await self._task` is over once the task has ended; stop() returns
queue_stop_returns ==
    /\ task.call = "stop"
    /\ task.ref => ~TaskAlive
    /\ task' = [task EXCEPT !.call = "idle"]
    /\ UNCHANGED <<db, engine, magnets, loopVars, storage_type, admVars, files,
                   submits, http, wait>>

----------------------------------------------------------------------------
(* main.lifespan: start-up, serving, shutdown.  lifespan.step is the await
   the function is suspended at. *)

NewLifespan ==
    [step |-> "init_db", aria2_manager |-> "none", alldebrid_client |-> "none",
     verified |-> FALSE, download_queue |-> FALSE, exit_code |-> 0]

\* an exception in the try block, or sys.exit(1): on to the finally block
lifespan_fails(l) == [l EXCEPT !.step = "stop_queue", !.exit_code = 1]

\* await crud.init_db()
lifespan_init_db(ok) ==
    /\ lifespan.step = "init_db"
    /\ lifespan' = IF ok THEN [lifespan EXCEPT !.step = "aria2_start"]
                   ELSE lifespan_fails(lifespan)
    /\ UNCHANGED <<db, engine, magnets, loopVars, storage_type, admVars, files,
                   submits, http, wait, task>>

\* aria2_manager = Aria2Manager(); await aria2_manager.start()
lifespan_aria2_start(ok) ==
    /\ lifespan.step = "aria2_start"
    /\ lifespan' =
          IF ok
          THEN [lifespan EXCEPT !.step = "verify", !.aria2_manager = "started"]
          ELSE lifespan_fails([lifespan EXCEPT !.aria2_manager = "created"])
    /\ UNCHANGED <<db, engine, magnets, loopVars, storage_type, admVars, files,
                   submits, http, wait, task>>

\* alldebrid_client = AllDebridClient(); await get_user_info()
lifespan_verify(ok) ==
    /\ lifespan.step = "verify"
    /\ lifespan' =
          IF ok
          THEN [lifespan EXCEPT !.step = "queue_start",
                                !.alldebrid_client = "open",
                                !.verified = TRUE]
          ELSE lifespan_fails([lifespan EXCEPT !.alldebrid_client = "open"])
    /\ UNCHANGED <<db, engine, magnets, loopVars, storage_type, admVars, files,
                   submits, http, wait, task>>

\* download_queue = DownloadQueue(...); await download_queue.start()
lifespan_queue_start ==
    /\ lifespan.step = "queue_start"
    /\ queue_start
    /\ lifespan' = [lifespan EXCEPT !.step = "serving",
                                    !.download_queue = TRUE]

\* the application ends (code 0), or an exception is thrown in at the
\* yield and sys.exit(1) follows
lifespan_shutdown(code) ==
    /\ lifespan.step = "serving"
    /\ lifespan' = [lifespan EXCEPT !.step = "stop_queue", !.exit_code = code]
    /\ UNCHANGED <<db, engine, magnets, loopVars, storage_type, admVars, files,
                   submits, http, wait, task>>

\* a finally block that leaves the queue running
lifespan_stop_queue_skipped ==
    /\ lifespan.step = "stop_queue"
    /\ lifespan' = [lifespan EXCEPT !.step = "stop_aria2"]
    /\ UNCHANGED <<db, engine, magnets, loopVars, storage_type, admVars, files,
                   submits, http, wait, task>>

\* finally: `if download_queue: await download_queue.stop()`
lifespan_stop_queue ==
    /\ lifespan.step = "stop_queue"
    /\ IF lifespan.download_queue
       THEN /\ queue_stop
            /\ lifespan' = [lifespan EXCEPT !.step = "await_queue"]
       ELSE /\ lifespan' = [lifespan EXCEPT !.step = "stop_aria2"]
            /\ UNCHANGED <<db, engine, magnets, loopVars, storage_type,
                           admVars, files, submits, http, wait, task>>

\* download_queue.stop() has returned
lifespan_queue_stopped ==
    /\ lifespan.step = "await_queue"
    /\ queue_stop_returns
    /\ lifespan' = [lifespan EXCEPT !.step = "stop_aria2"]

\* `if aria2_manager: await aria2_manager.stop()`
lifespan_stop_aria2 ==
    /\ lifespan.step = "stop_aria2"
    /\ lifespan' = [lifespan EXCEPT
                      !.step = "close_client",
                      !.aria2_manager = IF @ = "started" THEN "stopped" ELSE @]
    /\ UNCHANGED <<db, engine, magnets, loopVars, storage_type, admVars, files,
                   submits, http, wait, task>>

\* `if alldebrid_client: await alldebrid_client.close()`
lifespan_close_client ==
    /\ lifespan.step = "close_client"
    /\ lifespan' = [lifespan EXCEPT
                      !.step = "done",
                      !.alldebrid_client = IF @ = "open" THEN "closed" ELSE @]
    /\ UNCHANGED <<db, engine, magnets, loopVars, storage_type, admVars, files,
                   submits, http, wait, task>>

----------------------------------------------------------------------------
\* the state after construction: an empty table, a fresh engine, the loop
\* not yet started
InitProgram ==
    /\ db = <<>>
    /\ engine = <<>>
    /\ magnets = 0
    /\ running = FALSE
    /\ pc = "init"
    /\ torrent = NoTorrent
    /\ gid = 0
    /\ downloading = <<>>
    /\ storage_type \in StorageTypes
    /\ files = {}

\* a run whose clients submit one magnet
Init ==
    /\ InitProgram
    /\ magnet_uris \in {{h} : h \in Hashes}
    /\ adm_in = <<>>
    /\ adm_out = <<>>
    /\ config = <<>>
    /\ submits = <<>>
    /\ http = <<>>
    /\ lifespan = <<>>
    /\ task = <<>>
    /\ wait = <<>>

\* a run whose clients submit every magnet
InitPair ==
    /\ InitProgram
    /\ magnet_uris = Hashes
    /\ adm_in = <<>>
    /\ adm_out = <<>>
    /\ config = <<>>
    /\ submits = <<>>
    /\ http = <<>>
    /\ lifespan = <<>>
    /\ task = <<>>
    /\ wait = <<>>

\* a stand-alone admission decision on given rows
InitAdmit ==
    /\ InitProgram
    /\ magnet_uris = {}
    /\ adm_in \in AdmInputs
    /\ adm_out = <<>>
    /\ config = <<>>
    /\ submits = <<>>
    /\ http = <<>>
    /\ lifespan = <<>>
    /\ task = <<>>
    /\ wait = <<>>

\* the steps of the loop task
LoopNext ==
    \/ process_queued_torrents
    \/ upload_ok
    \/ upload_raises
    \/ wait_step
    \/ unlock_and_add
    \/ unlock_or_add_raises
    \/ persist_download
    \/ read_downloading
    \/ update_skip
    \/ \E st \in AllReports : update_one(st)
    \/ update_done
    \/ pass_raises
    \/ backoff_done

\* the loop task runs unless a CancelledError is waiting for it
loop_step ==
    /\ ~task.cancelled
    /\ LoopNext

Next ==
    \/ start
    \/ stop
    \/ \E h \in Hashes : add_torrent(h)
    \/ \E h \in Hashes : \E f \in DeleteFilesFlags : delete_torrents(h, f)
    \/ \E h \in Hashes : pause_torrents(h)
    \/ \E h \in Hashes : resume_torrents(h)
    \/ LoopNext

\* the application without delete requests
NextOrder ==
    \/ start
    \/ stop
    \/ \E h \in Hashes : add_torrent(h)
    \/ \E h \in Hashes : pause_torrents(h)
    \/ \E h \in Hashes : resume_torrents(h)
    \/ LoopNext

NextAdmit == can_start_call

\* requests to /torrents/add arriving together at the running application
InitSubmit ==
    /\ \E st \in Stores :
          /\ db = st.db
          /\ engine = st.engine
          /\ files = st.files
          /\ magnets = st.magnets
    /\ running = TRUE
    /\ pc = "queued"
    /\ torrent = NoTorrent
    /\ gid = 0
    /\ downloading = <<>>
    /\ storage_type \in StorageTypes
    /\ magnet_uris = Hashes
    /\ adm_in = <<>>
    /\ adm_out = <<>>
    /\ config = <<>>
    /\ submits \in [Reqs -> {NewSubmit(h) : h \in Hashes}]
    /\ http = <<>>
    /\ lifespan = <<>>
    /\ task = <<>>
    /\ wait = <<>>

\* one _request call, the service behaving as a given script
InitRequest ==
    /\ InitProgram
    /\ magnet_uris = {}
    /\ adm_in = <<>>
    /\ adm_out = <<>>
    /\ config = <<>>
    /\ submits = <<>>
    /\ http \in {NewRequest(sc) : sc \in [1..retries -> AttemptOutcomes]}
    /\ lifespan = <<>>
    /\ task = <<>>
    /\ wait = <<>>

NextRequest ==
    \/ request_attempt
    \/ request_sleep

NextSubmit ==
    \E r \in Reqs :
        \/ submit_get(r)
        \/ submit_create(r)

Spec == Init /\ [][Next]_vars
SpecPair == InitPair /\ [][Next]_vars
SpecAdmit == InitAdmit /\ [][NextAdmit]_vars
\* a run whose clients submit every magnet and pause and resume them
SpecOrder == InitPair /\ [][NextOrder]_vars
SpecSubmit == InitSubmit /\ [][NextSubmit]_vars
SpecRequest == InitRequest /\ [][NextRequest]_vars
\* the event loop resumes the loop task whenever the await it is suspended
\* at is over
SpecLive == Init /\ [][Next]_vars /\ WF_vars(start) /\ WF_vars(LoopNext)

\* the application from the call of lifespan to its end, one magnet
InitLife ==
    /\ InitProgram
    /\ magnet_uris \in {{h} : h \in Hashes}
    /\ adm_in = <<>>
    /\ adm_out = <<>>
    /\ config = <<>>
    /\ submits = <<>>
    /\ http = <<>>
    /\ lifespan = NewLifespan
    /\ task = NewTask
    /\ wait = <<>>

NextLife ==
    \/ \E ok \in BOOLEAN : lifespan_init_db(ok)
    \/ \E ok \in BOOLEAN : lifespan_aria2_start(ok)
    \/ \E ok \in BOOLEAN : lifespan_verify(ok)
    \/ lifespan_queue_start
    \/ \E code \in {0, 1} : lifespan_shutdown(code)
    \/ lifespan_stop_queue
    \/ lifespan_queue_stopped
    \/ lifespan_stop_aria2
    \/ lifespan_close_client
    \/ loop_cancelled /\ UNCHANGED lifespan
    \/ loop_step
    \/ \E h \in Hashes : lifespan.step = "serving" /\ add_torrent(h)

SpecLife == InitLife /\ [][NextLife]_vars

\* one computation of the engine's options, for a given class and settings
InitProfile ==
    /\ db = <<>>
    /\ engine = <<>>
    /\ magnets = 0
    /\ running = FALSE
    /\ pc = "init"
    /\ torrent = NoTorrent
    /\ gid = 0
    /\ downloading = <<>>
    /\ storage_type \in StorageInputs
    /\ files = {}
    /\ magnet_uris = {}
    /\ adm_in = <<>>
    /\ adm_out = <<>>
    /\ config \in {NewConfig(s) : s \in SettingsInputs}
    /\ submits = <<>>
    /\ http = <<>>
    /\ lifespan = <<>>
    /\ task = <<>>
    /\ wait = <<>>

\* The application started over the table an earlier run has left: rows in
\* state downloading whose gids the new aria2 process does not know.
EarlierHashes == <<"e1", "e2", "e3", "e4", "e5">>
StaleGid(i) == 100 + i
EarlierRow(i) ==
    [NewTorrent(EarlierHashes[i]) EXCEPT
        !.state = "downloading", !.alldebrid_id = StaleGid(i),
        !.aria2_gid = StaleGid(i), !.size = 1 * GiB, !.added_on = 1]
EarlierTable(k) == [i \in 1..k |-> EarlierRow(i)]

\* the admission cap of a storage class
AdmissionCap(storage) ==
    IF storage = "hdd" THEN simultaneous_small_files ELSE ssd_cap

\* the records the clients of such a run submit, pause, resume and delete
CapHashes == {"h1", EarlierHashes[1]}

\* the earlier run has left as many downloading rows as the cap allows
InitCap ==
    /\ engine = <<>>
    /\ magnets = 0
    /\ running = FALSE
    /\ pc = "init"
    /\ torrent = NoTorrent
    /\ gid = 0
    /\ downloading = <<>>
    /\ storage_type \in StorageTypes
    /\ db = EarlierTable(AdmissionCap(storage_type))
    /\ files = {}
    /\ magnet_uris = CapHashes
    /\ adm_in = <<>>
    /\ adm_out = <<>>
    /\ config = <<>>
    /\ submits = <<>>
    /\ http = <<>>
    /\ lifespan = <<>>
    /\ task = <<>>
    /\ wait = <<>>

NextCap ==
    \/ start
    \/ \E h \in CapHashes : add_torrent(h)
    \/ \E h \in CapHashes : \E f \in DeleteFilesFlags : delete_torrents(h, f)
    \/ \E h \in CapHashes : pause_torrents(h)
    \/ \E h \in CapHashes : resume_torrents(h)
    \/ LoopNext

SpecCap == InitCap /\ [][NextCap]_vars

\* a run in which clients only submit: the loop is scheduled whenever it is
\* ready, and no await of the start pipeline fails in every iteration
NextFifo ==
    \/ start
    \/ \E h \in Hashes : add_torrent(h)
    \/ LoopNext

SpecFifo ==
    /\ InitPair
    /\ [][NextFifo]_vars
    /\ WF_vars(start)
    /\ WF_vars(LoopNext)
    /\ SF_vars(process_queued_torrents)
    /\ SF_vars(upload_ok \/ upload_raises)
    /\ SF_vars(wait_step)
    /\ SF_vars(unlock_and_add \/ unlock_or_add_raises)
    /\ SF_vars(persist_download)

\* the same run with the loop scheduled: the task created by start is run
\* by the event loop whenever it is ready
SpecCapLive == SpecCap /\ WF_vars(start) /\ WF_vars(LoopNext)

\* one wait_for_magnet_ready call, for given arguments and resolver
InitWait ==
    /\ InitProgram
    /\ magnet_uris = {}
    /\ adm_in = <<>>
    /\ adm_out = <<>>
    /\ config = <<>>
    /\ submits = <<>>
    /\ http = <<>>
    /\ lifespan = <<>>
    /\ task = <<>>
    /\ wait \in {NewWait(sc, tmo, i) :
                   sc \in WaitScripts, tmo \in WaitTimeouts, i \in WaitIntervals}

NextWait == wait_call

SpecWait == InitWait /\ [][NextWait]_vars

NextProfile == aria2_configure

SpecProfile == InitProfile /\ [][NextProfile]_vars

\* a DownloadQueue whose owner calls start() and stop() one after the other,
\* in any order and any number of times
InitQueue ==
    /\ InitProgram
    /\ magnet_uris \in {{h} : h \in Hashes}
    /\ adm_in = <<>>
    /\ adm_out = <<>>
    /\ config = <<>>
    /\ submits = <<>>
    /\ http = <<>>
    /\ lifespan = <<>>
    /\ task = NewTask
    /\ wait = <<>>

NextQueue ==
    \/ queue_start /\ UNCHANGED lifespan
    \/ queue_stop /\ UNCHANGED lifespan
    \/ loop_cancelled /\ UNCHANGED lifespan
    \/ queue_stop_returns /\ UNCHANGED lifespan
    \/ loop_step
    \/ \E h \in Hashes : add_torrent(h)

\* the event loop resumes a task whose await is over
SpecQueue ==
    /\ InitQueue
    /\ [][NextQueue]_vars
    /\ WF_vars(loop_cancelled /\ UNCHANGED lifespan)
    /\ WF_vars(queue_stop_returns /\ UNCHANGED lifespan)
----------------------------------------------------------------------------
(* Properties *)

Rows == {db[i] : i \in 1..Len(db)}
Threshold == 20 * GiB
MaxPolls == 300 \div 5

\* C1: every change of a row's state follows the state machine: queued ->
\* downloading, downloading -> completed, queued or downloading -> error,
\* the row the start pipeline works on -> error, queued or downloading ->
\* paused, paused -> queued.
StateMachine ==
    {<<"queued", "downloading">>, <<"downloading", "completed">>,
     <<"queued", "error">>, <<"downloading", "error">>,
     <<"queued", "paused">>, <<"downloading", "paused">>,
     <<"paused", "queued">>}
C1_StateMachineOnly ==
    [][\A h \in Hashes :
         (HasRow(db, h) /\ HasRow(db', h)) =>
            LET a == get_torrent_by_hash(db, h).state
                b == get_torrent_by_hash(db', h).state
            IN  \/ a = b
                \/ <<a, b>> \in StateMachine
                \/ (h = torrent /\ b = "error")]_vars

\* C2: a row's error_message is set (not NULL, not empty) exactly when its
\* state is error.
C2_ErrorMessageIffError ==
    \A t \in Rows : (t.error_message \notin {NoMsg, ""}) <=> (t.state = "error")

\* C3: a completed row has progress 1.0 and downloaded = size.
C3_CompletedIsFull ==
    \A t \in Rows :
        t.state = "completed" => (t.progress = 100 /\ t.downloaded = t.size)

\* C4: on HDD, when some downloading row is larger than 20 GiB, the
\* admission decision is false, however many rows are downloading.
C4_HddLargeBlocks ==
    (/\ adm_out # <<>>
     /\ storage_type = "hdd"
     /\ \E i \in 1..Len(adm_in) : adm_in[i].size > Threshold)
        => adm_out = <<FALSE>>
C4_Witness ==
    /\ storage_type = "hdd"
    /\ Len(adm_in) = 1
    /\ adm_in[1].size = 25 * GiB
    /\ adm_out = <<FALSE>>

\* C5: on HDD, when no downloading row is larger than 20 GiB, the admission
\* decision is true exactly when fewer than 3 rows are downloading.
C5_HddSmallCap ==
    (/\ adm_out # <<>>
     /\ storage_type = "hdd"
     /\ \A i \in 1..Len(adm_in) : adm_in[i].size <= Threshold)
        => adm_out = <<Len(adm_in) < 3>>
C5_Witness ==
    /\ storage_type = "hdd"
    /\ Len(adm_in) = 3
    /\ \A i \in 1..3 : adm_in[i].size = 20 * GiB
    /\ adm_out = <<FALSE>>

\* C6: on SSD the admission decision is true exactly when fewer than 5 rows
\* are downloading, whatever their sizes.
C6_SsdCap ==
    (adm_out # <<>> /\ storage_type = "ssd") => adm_out = <<Len(adm_in) < 5>>
C6_Witness ==
    /\ storage_type = "ssd"
    /\ Len(adm_in) = 4
    /\ \E i \in 1..4 : adm_in[i].size > Threshold
    /\ adm_out = <<TRUE>>

\* C7: on HDD the downloading rows are one large row (above 20 GiB) alone,
\* or at most 3 rows none of which is large.
C7_HddLargeAlone ==
    storage_type = "hdd" =>
        LET dl == get_torrents_by_state(db, "downloading")
        IN  /\ Len(dl) <= 3
            /\ (\E i \in 1..Len(dl) : dl[i].size > Threshold) => Len(dl) = 1

\* C8: when the resolver does not report ready within the timeout, the
\* wait raises TimeoutError after 60 polls, and the pipeline then ends
\* with the row in state error with the timeout message, the engine gets
\* no transfer and the row's aria2_gid is not written.
NeverReady(s) ==
    \/ s.pending >= MaxPolls
    \/ /\ s.final.kind = "status"
       /\ s.final.statusCode \notin {4, 5, 6, 7, 8, 11}
TimedOut == [outcome |-> "TimeoutError", has_links |-> FALSE, msg |-> "not ready"]
C8_TimeoutEndsInError ==
    [][/\ (pc = "upload" /\ pc' = "wait") =>
            \A s \in {x \in Scripts : NeverReady(x)} :
               LET r == wait_for_magnet_ready(s, 300, 5)
               IN  r.outcome = "TimeoutError" /\ r.polls = MaxPolls
       /\ (pc = "wait" /\ pc' # "wait" /\ after_wait(TimedOut)) =>
            /\ pc' = "downloading"
            /\ engine' = engine
            /\ HasRow(db, torrent) =>
                 LET t == get_torrent_by_hash(db', torrent)
                 IN  /\ t.state = "error"
                     /\ t.error_message = "AllDebrid processing timeout"
                     /\ t.aria2_gid = get_torrent_by_hash(db, torrent).aria2_gid]_vars
C8_Witness ==
    /\ pc = "downloading"
    /\ engine = <<>>
    /\ \E t \in Rows :
          /\ t.state = "error"
          /\ t.error_message = "AllDebrid processing timeout"
          /\ t.alldebrid_id # 0
          /\ t.aria2_gid = 0

\* C9: when a status poll answers one of the codes 5, 6, 7, 8, 11, that
\* poll is the last one of the wait and the wait raises; the pipeline then
\* ends with the row in state error and the engine gets no transfer.
MagnetFailed(c) ==
    [outcome |-> "ValueError", has_links |-> FALSE, msg |-> MagnetFailedMsg(c)]
C9_ErrorCodeStopsPolling ==
    [][/\ (pc = "upload" /\ pc' = "wait") =>
            \A s \in {x \in Scripts : /\ x.final.kind = "status"
                                     /\ x.final.statusCode \in {5, 6, 7, 8, 11}
                                     /\ x.pending < MaxPolls} :
               LET r == wait_for_magnet_ready(s, 300, 5)
               IN  /\ r.outcome = "ValueError"
                   /\ r.msg = MagnetFailedMsg(s.final.statusCode)
                   /\ r.polls = s.pending + 1
       /\ (/\ pc = "wait"
           /\ pc' # "wait"
           /\ \E c \in {5, 6, 7, 8, 11} : after_wait(MagnetFailed(c))) =>
            /\ pc' = "downloading"
            /\ engine' = engine
            /\ HasRow(db, torrent) =>
                 LET t == get_torrent_by_hash(db', torrent)
                 IN  /\ t.state = "error"
                     /\ t.aria2_gid = get_torrent_by_hash(db, torrent).aria2_gid]_vars
C9_Witness ==
    /\ pc = "downloading"
    /\ engine = <<>>
    /\ \E t \in Rows :
          /\ t.state = "error"
          /\ t.error_message = "Magnet failed with status code 11"
          /\ t.aria2_gid = 0

\* C10: when the engine reports complete for a row of the pass, one update
\* sets state completed, progress 1.0, dlspeed 0, eta 0 and completion_on.
C10_CompleteForcesFields ==
    [][(pc = "update" /\ downloading # <<>> /\ downloading' # downloading) =>
         \A st \in AllReports :
            (st.status = "complete" /\ update_one(st)) =>
               (HasRow(db, Head(downloading).hash) =>
                  LET t == get_torrent_by_hash(db', Head(downloading).hash)
                  IN  /\ t.state = "completed"
                      /\ t.progress = 100
                      /\ t.dlspeed = 0
                      /\ t.eta = 0
                      /\ t.completion_on)]_vars
C10_Witness ==
    \E t \in Rows :
        /\ t.state = "completed"
        /\ t.completion_on
        /\ t.progress = 100
        /\ t.downloaded = 0
        /\ t.size > 0
        /\ t.dlspeed = 0
        /\ t.eta = 0

\* C11: a submission whose hash is stored when the handler looks it up
\* leaves the table as it is, with one record per hash, and answers "Ok.".
C11_SubmitIdempotent ==
    [][\A r \in Reqs :
         (HasRow(db, submits[r].hash) /\ submit_get(r)) =>
            /\ db' = db
            /\ \A h \in Hashes :
                  Cardinality({i \in 1..Len(db') : db'[i].hash = h}) <= 1
            /\ submits'[r].at = "done"
            /\ submits'[r].response = "Ok."]_vars
C11_Witness ==
    \E r \in Reqs :
        /\ submits[r].at = "done"
        /\ submits[r].response = "Ok."
        /\ Len(db) = 1
        /\ db[1].hash = submits[r].hash
        /\ db[1].state = "downloading"
        /\ db[1].progress = 100

\* C12: of two submissions of one hash in flight together, whatever their
\* interleaving, one record is stored and no submission is answered with
\* an error.
C12_ConcurrentSubmitNoError ==
    /\ \A h \in Hashes :
          Cardinality({i \in 1..Len(db) : db[i].hash = h}) <= 1
    /\ \A r \in DOMAIN submits : submits[r].response # "400"

\* C13: a delete request removes the record of a stored hash; with
\* deleteFiles the file the engine wrote for the item is gone from the save
\* path afterwards, without it the save path is left as it was.
C13_DeleteRemovesRecordAndFiles ==
    [][\A h \in Hashes : \A f \in BOOLEAN :
         (HasRow(db, h) /\ delete_torrents(h, f)) =>
            /\ ~HasRow(db', h)
            /\ f => FileName(h) \notin files'
            /\ ~f => files' = files]_vars

\* C14: after the delete of a downloading record that has an engine
\* transfer, the engine holds no transfer created for that item.
C14_DeleteCancelsTransfer ==
    [][\A h \in Hashes : \A f \in BOOLEAN :
         (/\ HasRow(db, h)
          /\ get_torrent_by_hash(db, h).state = "downloading"
          /\ get_torrent_by_hash(db, h).aria2_gid \in 1..Len(engine)
          /\ delete_torrents(h, f)) =>
            \A g \in 1..Len(engine') : engine'[g].owner # h]_vars

\* C15: a pause request changes nothing for a record in state completed
\* or error; a queued or downloading record becomes paused.
C15_PauseOnlyQueuedOrDownloading ==
    [][\A h \in Hashes :
         (HasRow(db, h) /\ pause_torrents(h)) =>
            IF get_torrent_by_hash(db, h).state \in {"queued", "downloading"}
            THEN get_torrent_by_hash(db', h).state = "paused"
            ELSE db' = db]_vars

\* C16: a resume request turns a paused record into a queued one, every
\* other field and record as before; for a record in any other state the
\* table is left as it was.
C16_ResumeOnlyPaused ==
    [][\A h \in Hashes :
         resume_torrents(h) =>
            /\ Len(db') = Len(db)
            /\ \A i \in 1..Len(db) :
                  IF db[i].hash = h /\ db[i].state = "paused"
                  THEN db'[i] = [db[i] EXCEPT !.state = "queued"]
                  ELSE db'[i] = db[i]]_vars
C16_Witness ==
    \E t \in Rows : t.state = "queued" /\ t.aria2_gid # 0

\* C17: no step of the loop task changes a record that is in state error
\* or completed.
C17_TerminalForLoop ==
    [][(loopVars' # loopVars) =>
         \A h \in Hashes :
            (/\ HasRow(db, h)
             /\ get_torrent_by_hash(db, h).state \in {"error", "completed"}) =>
               /\ HasRow(db', h)
               /\ get_torrent_by_hash(db', h) = get_torrent_by_hash(db, h)]_vars
C17_Witness ==
    /\ pc = "update"
    /\ \E t \in Rows :
          /\ t.state = "error"
          /\ t.error_message = "No download links available"

\* C18: when the first answer is a structured error, the request ends
\* after that one attempt, without a sleep, raising that error.
C18_ApiErrorNotRetried ==
    (http # <<>> /\ http.script[1] = "api_error") =>
        /\ http.attempts <= 1
        /\ http.slept = <<>>
        /\ http.at = "done" =>
              http.result = [kind |-> "raise", attempt |-> 1,
                             error |-> "api_error"]

\* C19: with transport failures only, a request makes at most 3 attempts,
\* has slept 1 s then 2 s before the second and third, returns the data of
\* the first attempt that succeeds and stops there, and after a third
\* failure raises it without another sleep.
FirstOk(sc) ==
    IF \E i \in 1..3 : sc[i] = "ok"
    THEN CHOOSE i \in 1..3 : sc[i] = "ok" /\ \A j \in 1..(i - 1) : sc[j] # "ok"
    ELSE 0
C19_BoundedRetryBackoff ==
    (http # <<>> /\ \A i \in 1..3 : http.script[i] \in {"ok", "transport"}) =>
        /\ http.attempts <= 3
        /\ \A i \in 1..Len(http.slept) :
              http.slept[i] = IF i = 1 THEN 1 ELSE 2
        /\ http.at = "done" =>
              LET k == FirstOk(http.script)
              IN  IF k # 0
                  THEN /\ http.result = [kind |-> "return", attempt |-> k,
                                         error |-> "none"]
                       /\ http.attempts = k
                       /\ Len(http.slept) = k - 1
                  ELSE /\ http.result = [kind |-> "raise", attempt |-> 3,
                                         error |-> "transport"]
                       /\ http.attempts = 3
                       /\ http.slept = <<1, 2>>
C19_Witness ==
    /\ http # <<>>
    /\ http.script = <<"transport", "transport", "ok">>
    /\ http.at = "done"
    /\ http.slept = <<1, 2>>
    /\ http.result.kind = "return"

\* C20: the loop task ends only by a stop, and while none was requested
\* it always comes back to the start of an iteration, also after an
\* exception has left a pass.
C20_LoopSurvivesFailures ==
    /\ [](pc = "stopped" => ~running)
    /\ [](running => <>(pc = "queued" \/ ~running))
C20_Witness ==
    /\ running
    /\ pc = "backoff"
    /\ engine # <<>>

\* C21: a failure on one item stays inside the pass that handles it: when
\* the start pipeline ends, by success or by failure, the reconciliation
\* pass of the same iteration comes next, and in the reconciliation pass a
\* row is always followed by the remaining rows.
PipelineAwaits == {"upload", "wait", "unlock", "persist"}
C21_FailureStaysInPass ==
    [][/\ (pc \in PipelineAwaits /\ pc' \notin PipelineAwaits /\ running') =>
            pc' = "downloading"
       /\ (pc = "update" /\ downloading # <<>> /\ loopVars' # loopVars
              /\ running') =>
            (pc' = "update" /\ downloading' = Tail(downloading))]_vars

\* C22: a loop task exists only while the engine adapter is started, the
\* resolver credentials are verified and the resolver client is open: the
\* queue is started after both start-up steps succeeded and is stopped
\* before the adapter is stopped and the client closed; a failed start-up
\* exits without any pass.
C22_LifecycleOrdering ==
    /\ TaskAlive =>
          /\ lifespan.aria2_manager = "started"
          /\ lifespan.verified
          /\ lifespan.alldebrid_client = "open"
    /\ running => TaskAlive
    /\ (lifespan.step \notin {"init_db", "aria2_start", "verify", "queue_start"}
        /\ ~lifespan.download_queue) =>
          /\ lifespan.exit_code = 1
          /\ pc = "init"
          /\ db = <<>> /\ engine = <<>> /\ magnets = 0
C22_Witness ==
    /\ lifespan.step = "done"
    /\ lifespan.aria2_manager = "stopped"
    /\ lifespan.alldebrid_client = "closed"
    /\ pc = "stopped"
    /\ engine # <<>>

\* C23: a call of stop() returns, and from the call on the loop performs
\* nothing: the table, the engine and the resolver are left as they are
\* and, once stop() has returned, no loop task is alive; whatever the
\* sequence of start() and stop() calls, there is never more than one loop
\* task.
C23_StopEndsLoop ==
    /\ [](task.tasks <= 1)
    /\ []((task.call = "idle" /\ ~running) => (task.tasks = 0 /\ ~TaskAlive))
    /\ [][~running => UNCHANGED <<db, engine, magnets, files>>]_vars
    /\ (task.call = "stop") ~> (task.call = "idle")
C23_Witness ==
    /\ task.call = "idle"
    /\ ~running
    /\ task.ref
    /\ pc = "stopped"
    /\ engine # <<>>

\* C24: the profile depends on the storage class only: for hdd it has 16
\* connections per server, split 1, min-split-size 1G, file allocation
\* prealloc and 2 concurrent downloads; for every other class 32, 16, 20M,
\* falloc and 5.
C24_ProfileOfClass ==
    (config # <<>> /\ config.done) =>
        LET p == config.profile
        IN  IF storage_type = "hdd"
            THEN /\ p["max-connection-per-server"] = 16
                 /\ p["split"] = 1
                 /\ p["min-split-size"] = "1G"
                 /\ p["file-allocation"] = "prealloc"
                 /\ p["max-concurrent-downloads"] = 2
            ELSE /\ p["max-connection-per-server"] = 32
                 /\ p["split"] = 16
                 /\ p["min-split-size"] = "20M"
                 /\ p["file-allocation"] = "falloc"
                 /\ p["max-concurrent-downloads"] = 5
C24_Witness ==
    /\ config # <<>>
    /\ config.done
    /\ storage_type = "nvme"
    /\ config.settings.max_concurrent_downloads = 2
    /\ config.profile["max-concurrent-downloads"] = 5

\* C25: in an iteration the admission pass, with the start pipeline it may
\* have launched, is over before the reconciliation pass begins, and the
\* next admission pass begins only after the reconciliation pass (or after
\* the sleep that follows an exception): the passes never overlap and an
\* iteration runs the start pipeline of one item at most, whatever the
\* queue and the free slots.
ReconcilePcs == {"downloading", "update"}
C25_PassScheduling ==
    [][/\ (pc' = "upload" /\ pc # "upload") => pc = "queued"
       /\ (pc' = "queued" /\ pc # "queued") => pc \in {"init", "update", "backoff"}
       /\ (pc' \in ReconcilePcs /\ pc \notin ReconcilePcs) =>
             /\ pc \in {"queued"} \cup PipelineAwaits
             /\ pc' = "downloading"
       /\ pc' \in ReconcilePcs => (torrent' = NoTorrent /\ gid' = 0)
       /\ pc' \in {"queued"} \cup PipelineAwaits => downloading' = <<>>]_vars
C25_Witness ==
    /\ pc = "update"
    /\ storage_type = "ssd"
    /\ Len(db) = 2
    /\ db[1].state = "downloading"
    /\ db[2].state = "queued"
    /\ db[1].progress = 0
    /\ downloading # <<>>

\* C26: the item an admission pass admits is a queued record whose
\* added_on is the earliest of the records queued at that moment.
C26_AdmitsEarliestQueued ==
    [][(pc = "queued" /\ pc' = "upload") =>
          \E r \in Rows :
             /\ r.hash = torrent'
             /\ r.state = "queued"
             /\ \A q \in Rows : q.state = "queued" => r.added_on <= q.added_on]_vars
C26_Witness ==
    /\ pc = "upload"
    /\ Len(db) = 2
    /\ db[1].state = "queued"
    /\ db[2].state = "queued"
    /\ db[1].added_on < db[2].added_on
    /\ torrent = db[1].hash
    /\ db[1].hash = "h2"

\* C27 as stated: from the upload to the engine's acceptance the state of
\* the record the pipeline works on is queued.
C27_StaysQueued ==
    (pc \in {"wait", "unlock", "persist"} /\ HasRow(db, torrent)) =>
        get_torrent_by_hash(db, torrent).state = "queued"

\* C27: the step that ends a successful upload stores the resolver's id
\* and size in the record, before the wait; up to the engine's acceptance
\* the pipeline leaves the record's state as it is and the state is never
\* downloading (a pause request may have turned it to paused); a record
\* becomes downloading only by the step that follows the engine's
\* acceptance of its transfer.
C27_PersistsIdThenKeepsState ==
    [][/\ (pc = "upload" /\ pc' = "wait" /\ HasRow(db, torrent)) =>
             /\ get_torrent_by_hash(db', torrent).alldebrid_id = magnets'
             /\ magnets' = magnets + 1
             /\ get_torrent_by_hash(db', torrent).size = FileSize(torrent)
       /\ (pc \in {"upload", "wait", "unlock"}
           /\ pc' \in {"wait", "unlock", "persist"}
           /\ pc' # pc
           /\ HasRow(db, torrent)) =>
             get_torrent_by_hash(db', torrent).state =
                get_torrent_by_hash(db, torrent).state
       /\ (pc' \in PipelineAwaits /\ HasRow(db', torrent')) =>
             get_torrent_by_hash(db', torrent').state # "downloading"
       /\ \A h \in Hashes :
             (/\ HasRow(db', h)
              /\ get_torrent_by_hash(db', h).state = "downloading"
              /\ ~(HasRow(db, h)
                   /\ get_torrent_by_hash(db, h).state = "downloading")) =>
                /\ pc = "persist"
                /\ torrent = h
                /\ gid \in 1..Len(engine)
                /\ engine[gid].owner = h]_vars
C27_Witness ==
    /\ pc = "persist"
    /\ HasRow(db, torrent)
    /\ get_torrent_by_hash(db, torrent).state = "paused"
    /\ get_torrent_by_hash(db, torrent).alldebrid_id = magnets
    /\ get_torrent_by_hash(db, torrent).aria2_gid = 0
    /\ gid \in 1..Len(engine)

\* C28: when the wait returns ready without links, the record is marked
\* error with the message "No download links available", the pipeline is
\* over with no unlock and no engine call (the engine has the transfers it
\* had and no gid is held), and the record's aria2_gid is what it was.
NoLinks == [outcome |-> "return", has_links |-> FALSE, msg |-> ""]
C28_NoLinksIsError ==
    [][after_wait(NoLinks) =>
          /\ NoLinks \in WaitResults
          /\ pc' = "downloading"
          /\ engine' = engine
          /\ files' = files
          /\ gid' = 0
          /\ HasRow(db, torrent) =>
                get_torrent_by_hash(db', torrent) =
                   [get_torrent_by_hash(db, torrent) EXCEPT
                      !.state = "error",
                      !.error_message = "No download links available",
                      !.dlspeed = 0]]_vars
C28_Witness ==
    /\ pc = "downloading"
    /\ engine = <<>>
    /\ magnets = 1
    /\ Len(db) = 1
    /\ db[1].state = "error"
    /\ db[1].error_message = "No download links available"
    /\ db[1].aria2_gid = 0
    /\ db[1].alldebrid_id = 1

\* C29: when the engine reports error for a row of the pass, the record
\* gets state error, the engine's message and speed 0, and every other
\* column (progress, downloaded, size, eta among them) keeps its value.
C29_EngineErrorWritesOnlyError ==
    [][\A st \in AllReports :
          (/\ st.status = "error"
           /\ update_one(st)
           /\ HasRow(db, Head(downloading).hash)) =>
             get_torrent_by_hash(db', Head(downloading).hash) =
                [get_torrent_by_hash(db, Head(downloading).hash) EXCEPT
                   !.state = "error",
                   !.error_message = st.error_message,
                   !.dlspeed = 0]]_vars
C29_Witness ==
    /\ pc = "update"
    /\ Len(db) = 1
    /\ db[1].state = "error"
    /\ db[1].error_message = "engine error"
    /\ db[1].aria2_gid # 0
    /\ db[1].progress = 100
    /\ db[1].downloaded = db[1].size
    /\ db[1].dlspeed = 0

\* C30: a row of the pass whose engine query gives nothing, or that has no
\* aria2_gid, is passed over: the table is left as it is and the pass goes
\* on with the rows that remain.
C30_SkipLeavesRecord ==
    [][/\ update_skip =>
             (db' = db /\ downloading' = Tail(downloading) /\ pc' = "update")
       /\ (/\ pc = "update"
           /\ downloading # <<>>
           /\ Head(downloading).aria2_gid \notin 1..Len(engine)
           /\ loopVars' # loopVars
           /\ running') =>
             (db' = db /\ downloading' = Tail(downloading) /\ pc' = "update")]_vars
C30_Witness ==
    /\ pc = "update"
    /\ downloading = <<>>
    /\ Len(db) = 1
    /\ db[1].state = "downloading"
    /\ db[1].aria2_gid \in 1..Len(engine)
    /\ db[1].downloaded = 0
    /\ db[1].dlspeed = 0

\* C31 as stated: the call ends by returning the status, by the
\* resolution error or by the timeout error.
C31_ThreeOutcomes ==
    (wait # <<>> /\ wait.result # <<>>) =>
        wait.result[1].outcome \in {"return", "ValueError", "TimeoutError"}

\* C31: for a positive poll interval the call ends in one of four ways.
\* It returns at the first poll that answers ready, raises the resolution
\* error at the first poll that answers a terminal error code, lets the
\* exception of a failed poll through, or raises the timeout error after
\* ceil(timeout / poll_interval) polls, none of which ended the wait; it
\* never polls more often than that, and not at all when the timeout is 0.
CeilDiv(a, b) == (a + b - 1) \div b
C31_WaitOutcomes ==
    (wait # <<>> /\ wait.result # <<>>) =>
        LET r == wait.result[1]
            most == CeilDiv(wait.timeout, wait.poll_interval)
            answer(n) == get_magnet_status(wait.script, n)
            pending(a) == a.kind = "status" /\ a.statusCode # READY
                             /\ a.statusCode \notin ErrorCodes
        IN  /\ r.polls <= most
            /\ wait.timeout = 0 => (r.polls = 0 /\ r.outcome = "TimeoutError")
            /\ \A n \in 1..r.polls : n < r.polls => pending(answer(n))
            /\ CASE r.outcome = "return" ->
                      /\ r.polls >= 1
                      /\ answer(r.polls).kind = "status"
                      /\ answer(r.polls).statusCode = READY
                      /\ r.has_links = answer(r.polls).has_links
                 [] r.outcome = "ValueError" ->
                      /\ r.polls >= 1
                      /\ answer(r.polls).kind = "status"
                      /\ answer(r.polls).statusCode \in ErrorCodes
                      /\ r.msg = MagnetFailedMsg(answer(r.polls).statusCode)
                 [] r.outcome = "Exception" ->
                      /\ r.polls >= 1
                      /\ answer(r.polls).kind = "exception"
                      /\ r.msg = answer(r.polls).msg
                 [] r.outcome = "TimeoutError" ->
                      /\ r.polls = most
                      /\ r.polls * wait.poll_interval >= wait.timeout
                      /\ r.polls >= 1 => pending(answer(r.polls))
                 [] OTHER -> FALSE
C31_Witness ==
    /\ wait # <<>>
    /\ wait.result # <<>>
    /\ wait.timeout = 12
    /\ wait.poll_interval = 7
    /\ wait.script.pending = 1
    /\ wait.script.final.kind = "status"
    /\ wait.script.final.statusCode = 11
    /\ wait.result[1].outcome = "ValueError"
    /\ wait.result[1].polls = 2

\* C32: while a start pipeline works on a record, the record carries no
\* aria2_gid: the one of an earlier attempt is gone when a later attempt
\* has started.
C32_NoHandleOfEarlierAttempt ==
    (pc \in PipelineAwaits /\ HasRow(db, torrent)) =>
        get_torrent_by_hash(db, torrent).aria2_gid = 0

\* C33: the final update of a start pipeline leaves a record paused that a
\* pause request has paused while the pipeline was in flight.
C33_PauseSurvivesPipeline ==
    [][(/\ pc = "persist"
        /\ pc' = "downloading"
        /\ HasRow(db, torrent)
        /\ get_torrent_by_hash(db, torrent).state = "paused") =>
            get_torrent_by_hash(db', torrent).state = "paused"]_vars

\* C34: every record in state downloading has an aria2_gid.
C34_DownloadingHasHandle ==
    \A r \in Rows : r.state = "downloading" => r.aria2_gid # 0
C34_Witness ==
    /\ Len(db) = 1
    /\ db[1].state = "downloading"
    /\ db[1].aria2_gid = 2
    /\ Len(engine) = 2
    /\ magnets = 2

\* C35: the number of records in state downloading is never above the
\* admission cap of the storage class, 3 on hdd and 5 on ssd.
C35_DownloadingWithinCap ==
    Len(get_torrents_by_state(db, "downloading")) <= AdmissionCap(storage_type)
C35_Witness ==
    /\ storage_type = "ssd"
    /\ Len(get_torrents_by_state(db, "downloading")) = ssd_cap
    /\ HasRow(db, "h1")
    /\ get_torrent_by_hash(db, "h1").state = "downloading"
    /\ HasRow(db, "e1")
    /\ get_torrent_by_hash(db, "e1").state = "queued"
    /\ pc = "update"
(* C36: every item has at most one transfer in the download engine.  A     *)
(* transfer is created by aria2.add_download (queue.py 173) and stays in   *)
(* the engine until the engine is told to remove it; neither the loop nor  *)
(* the API handlers call pause_download or remove_download.                *)
transfers_of(h) == {g \in 1..Len(engine) : engine[g].owner = h}
C36_OneTransferPerItem ==
    \A h \in Hashes : Cardinality(transfers_of(h)) <= 1


(* C37: while a record is paused the engine holds no transfer of the item   *)
(* that it may report as active.  pause_torrents writes the state column   *)
(* only (routes.py 286-287); Aria2Manager.pause_download is never called,  *)
(* so a transfer the engine holds keeps every answer of Reports open.      *)
may_transfer(h) ==
    \E g \in transfers_of(h) : \E st \in Reports(h) : st.status = "active"
C37_PausedNotTransferring ==
    \A i \in 1..Len(db) : db[i].state = "paused" => ~may_transfer(db[i].hash)

(* C38: while the loop runs, every record in state downloading eventually *)
(* leaves that state (completed, error, paused or deleted), also when the  *)
(* engine no longer knows the record's handle.                             *)
is_downloading(h) ==
    HasRow(db, h) /\ get_torrent_by_hash(db, h).state = "downloading"
C38_DownloadingEventuallyLeaves ==
    \A h \in CapHashes \cup {EarlierHashes[2]} :
        is_downloading(h) ~> ~is_downloading(h)

(* C39: while the loop runs and every downloading record eventually       *)
(* leaves downloading, every queued record is eventually admitted          *)
(* (downloading) or marked error; a record whose pipeline failed is in     *)
(* state error and the queued record behind it is taken in a later pass.   *)
is_queued(h) ==
    HasRow(db, h) /\ get_torrent_by_hash(db, h).state = "queued"
is_error(h) ==
    HasRow(db, h) /\ get_torrent_by_hash(db, h).state = "error"
C40_EngineSlotsCoverAdmission ==
    (/\ config # <<>>
     /\ config.done
     /\ config.settings = DefaultSettings
     /\ storage_type \in StorageTypes) =>
        config.options["max-concurrent-downloads"] >= AdmissionCap(storage_type)

====
